---- MODULE Spec2Model ----
(***************************************************************************)
(* State-machine model of nfqueue::Queue<T> (src/src/lib.rs): the handle   *)
(* lifecycle (new/open/close/bind/unbind/fd/create_queue/destroy_queue/    *)
(* set_mode/set_queue_maxlen), the receive loop run_loop and the dispatch  *)
(* trampoline real_callback.  The native library is modelled only by the   *)
(* calls the Rust code issues to it and by the handles it hands back.      *)
(***************************************************************************)
EXTENDS Integers, Sequences, FiniteSets, TLC

\* ---------------------------------------------------------------- bounds
MaxOpens   == 3   \* successful nfq_open calls in one behaviour
MaxCreates == 3   \* successful nfq_create_queue calls in one behaviour
MaxIters   == 3   \* recv() calls made by one run_loop
MaxPkts    == 2   \* packet notifications carried by one buffer
MaxMoves   == 1   \* moves of the Queue value made by its owner

\* ------------------------------------------------------ program constants
NULL              == 0
NFQNL_COPY_NONE   == 0
NFQNL_COPY_META   == 1
NFQNL_COPY_PACKET == 2
AF_INET           == 2

None == "None"
CopyModes == {"CopyNone", "CopyMeta", "CopyPacket"}
Callbacks == {"queue_callback"}
Families  == {AF_INET}
QueueNums == {0}
Ranges    == {65535}
QueueLens == {16}

VARIABLES
    qh,          \* Queue.qh : connection handle (NULL or a native handle id)
    qqh,         \* Queue.qqh: per-queue handle (NULL or a native queue id)
    cb,          \* Queue.cb : None or the registered callback
    data,        \* Queue.data: the caller's State (its counter)
    pc,          \* "idle" | "recv" | "parse" | "dispatch" | "panicked"
    last,        \* the last API call: name, abort flag, result, native calls
    prev,        \* the API call before the last one: name and result
    script,      \* how far the calls so far follow Script (-1: they do not)
    e2e,         \* how far the calls so far follow EndToEnd (-1: they do not)
    addr,        \* the place in memory where the Queue value currently is
    nconn,       \* native connection handles handed out so far
    liveConns,   \* native connection handles opened and not closed
    nq,          \* native queue handles handed out so far
    liveQueues,  \* native queue handles created and not destroyed
    rc,          \* run_loop: result of the last recv()
    rv,          \* run_loop: result of the last nfq_handle_packet()
    pending,     \* packets of the current buffer not yet dispatched
    delivered,   \* packet notifications the native parser found so far
    active,      \* user-callback invocations entered and not yet returned
    reads,       \* run_loop: recv() calls made
    okReads,     \* run_loop: recv() calls that returned >= 0
    parses,      \* run_loop: nfq_handle_packet() calls made
    parseFails,  \* run_loop: nfq_handle_packet() calls that returned < 0
    calls,       \* user-callback invocations made by real_callback
    cbres,       \* value the user callback last returned
    cbret,       \* value real_callback last returned to the native library
    verdicts     \* verdicts submitted through Message::set_verdict

vars == <<qh, qqh, cb, data, pc, last, prev, script, e2e, addr, nconn,
          liveConns, nq, liveQueues, rc, rv, pending, delivered, active,
          reads, okReads, parses, parseFails, calls, cbres, cbret, verdicts>>

native   == <<nconn, liveConns, nq, liveQueues>>
loopvars == <<rc, rv, pending, delivered, active, reads, okReads, parses,
              parseFails, calls, cbres, cbret, verdicts>>

\* One call made to the native library: function, handle argument, two
\* further arguments and the result.
NativeCall(f, h, a, b, r) == [fn |-> f, h |-> h, a |-> a, b |-> b, res |-> r]

\* The call sequence of the lifecycle test property.
Script == <<"open", "bind", "create_queue", "destroy_queue", "close">>

ScriptNext(s, op, ok) ==
    IF s >= 0 /\ s < Len(Script) /\ ok /\ Script[s + 1] = op THEN s + 1 ELSE -1

\* The call sequence of the crate-doc example: open, bind(AF_INET),
\* create_queue(0, queue_callback), set_mode(CopyPacket, 0xffff), run_loop.
EndToEnd ==
    <<[op |-> "open", a |-> 0, b |-> 0],
      [op |-> "bind", a |-> AF_INET, b |-> 0],
      [op |-> "create_queue", a |-> 0, b |-> 0],
      [op |-> "set_mode", a |-> NFQNL_COPY_PACKET, b |-> 65535],
      [op |-> "run_loop", a |-> 0, b |-> 0]>>

EndToEndNext(s, op, ncalls, ok) ==
    IF /\ s >= 0 /\ s < Len(EndToEnd) /\ ok
       /\ EndToEnd[s + 1] = [op |-> op, a |-> ncalls[1].a, b |-> ncalls[1].b]
    THEN s + 1 ELSE -1

\* An API call that returned: record it.  The call borrowed the Queue, so
\* the Queue is where it was.
Done(op, ret, ncalls, ok) ==
    /\ last' = [op |-> op, abort |-> FALSE, ret |-> ret, native |-> ncalls]
    /\ prev' = [op |-> last.op, ret |-> last.ret]
    /\ script' = ScriptNext(script, op, ok)
    /\ e2e' = EndToEndNext(e2e, op, ncalls, ok)
    /\ addr' = addr

\* A failed assert!: the call panics before touching anything.
Panic(op) ==
    /\ pc' = "panicked"
    /\ last' = [op |-> op, abort |-> TRUE, ret |-> "none", native |-> <<>>]
    /\ prev' = [op |-> last.op, ret |-> last.ret]
    /\ script' = -1
    /\ e2e' = -1
    /\ addr' = addr
    /\ UNCHANGED <<qh, qqh, cb, data, native, loopvars>>

\* Queue::new
Init ==
    /\ qh = NULL
    /\ qqh = NULL
    /\ cb = None
    /\ data = [count |-> 0]
    /\ pc = "idle"
    /\ last = [op |-> "new", abort |-> FALSE, ret |-> "unit", native |-> <<>>]
    /\ prev = [op |-> "none", ret |-> "none"]
    /\ script = 0
    /\ e2e = 0
    /\ addr = 0
    /\ nconn = 0
    /\ liveConns = {}
    /\ nq = 0
    /\ liveQueues = {}
    /\ rc = 0
    /\ rv = 0
    /\ pending = 0
    /\ delivered = 0
    /\ active = 0
    /\ reads = 0
    /\ okReads = 0
    /\ parses = 0
    /\ parseFails = 0
    /\ calls = 0
    /\ cbres = 0
    /\ cbret = 0
    /\ verdicts = <<>>

\* Queue::open: stores whatever nfq_open returns, returns ().
open ==
    /\ pc = "idle"
    /\ \E ok \in BOOLEAN :
        /\ ok => nconn < MaxOpens
        /\ LET h == IF ok THEN nconn + 1 ELSE NULL IN
            /\ qh' = h
            /\ nconn' = IF ok THEN nconn + 1 ELSE nconn
            /\ liveConns' = IF ok THEN liveConns \cup {h} ELSE liveConns
            /\ Done("open", "unit", <<NativeCall("nfq_open", NULL, 0, 0, h)>>, ok)
    /\ UNCHANGED <<qqh, cb, data, pc, nq, liveQueues, loopvars>>

\* The assert! of Queue::close.
close_assert_none == TRUE

close_assert == qh # NULL

\* Queue::close
close ==
    /\ pc = "idle"
    /\ IF ~close_assert
       THEN Panic("close")
       ELSE /\ liveConns' = liveConns \ {qh}
            /\ qh' = NULL
            /\ Done("close", "unit", <<NativeCall("nfq_close", qh, 0, 0, 0)>>, TRUE)
            /\ UNCHANGED <<qqh, cb, data, pc, nconn, nq, liveQueues, loopvars>>

\* Queue::bind
bind(pf) ==
    /\ pc = "idle"
    /\ IF qh = NULL
       THEN Panic("bind")
       ELSE /\ \E r \in {0, -1} :
                Done("bind", IF r = 0 THEN "0" ELSE "-1",
                     <<NativeCall("nfq_bind_pf", qh, pf, 0, r)>>, TRUE)
            /\ UNCHANGED <<qh, qqh, cb, data, pc, native, loopvars>>

\* Queue::unbind
unbind(pf) ==
    /\ pc = "idle"
    /\ IF qh = NULL
       THEN Panic("unbind")
       ELSE /\ \E r \in {0, -1} :
                Done("unbind", IF r = 0 THEN "0" ELSE "-1",
                     <<NativeCall("nfq_unbind_pf", qh, pf, 0, r)>>, TRUE)
            /\ UNCHANGED <<qh, qqh, cb, data, pc, native, loopvars>>

\* Queue::fd
fd ==
    /\ pc = "idle"
    /\ IF qh = NULL
       THEN Panic("fd")
       ELSE /\ Done("fd", "fd", <<NativeCall("nfq_fd", qh, 0, 0, 3)>>, TRUE)
            /\ UNCHANGED <<qh, qqh, cb, data, pc, native, loopvars>>

\* The two assert!s of Queue::create_queue.
create_queue_assert_no_qh == qqh = NULL

create_queue_assert_no_qqh == qh # NULL

create_queue_assert_once == qh # NULL /\ qqh = NULL /\ cb = None

create_queue_assert == qh # NULL /\ qqh = NULL

\* What create_queue stores in self.cb before it creates the native queue.
RegisteredCallback_kept(c) == cb

RegisteredCallback(c) == c

\* Queue::create_queue: both asserts, then cb is stored, then the native
\* queue is created and its handle stored; the result is !qqh.is_null().
create_queue(num, c) ==
    /\ pc = "idle"
    /\ IF ~create_queue_assert
       THEN Panic("create_queue")
       ELSE \E ok \in BOOLEAN :
            /\ ok => nq < MaxCreates
            /\ LET q == IF ok THEN nq + 1 ELSE NULL IN
                /\ cb' = RegisteredCallback(c)
                /\ qqh' = q
                /\ nq' = IF ok THEN nq + 1 ELSE nq
                /\ liveQueues' = IF ok
                                 THEN liveQueues \cup
                                      {[id |-> q, conn |-> qh, ctx |-> addr]}
                                 ELSE liveQueues
                /\ Done("create_queue", IF q # NULL THEN "true" ELSE "false",
                        <<NativeCall("nfq_create_queue", qh, num, 0, q)>>, ok)
            /\ UNCHANGED <<qh, data, pc, nconn, liveConns, loopvars>>

\* The assert! of Queue::destroy_queue, Queue::set_mode and
\* Queue::set_queue_maxlen.
qqh_assert_none == TRUE

qqh_assert == qqh # NULL

destroy_queue_keeps_qqh ==
    /\ pc = "idle"
    /\ IF ~qqh_assert
       THEN Panic("destroy_queue")
       ELSE /\ liveQueues' = {q \in liveQueues : q.id # qqh}
            /\ Done("destroy_queue", "unit",
                    <<NativeCall("nfq_destroy_queue", qqh, 0, 0, 0)>>, TRUE)
            /\ UNCHANGED <<qh, qqh, cb, data, pc, nconn, liveConns, nq, loopvars>>

\* Queue::destroy_queue
destroy_queue ==
    /\ pc = "idle"
    /\ IF ~qqh_assert
       THEN Panic("destroy_queue")
       ELSE /\ liveQueues' = {q \in liveQueues : q.id # qqh}
            /\ qqh' = NULL
            /\ Done("destroy_queue", "unit",
                    <<NativeCall("nfq_destroy_queue", qqh, 0, 0, 0)>>, TRUE)
            /\ UNCHANGED <<qh, cb, data, pc, nconn, liveConns, nq, loopvars>>

\* The match of Queue::set_mode.
CMode(mode) ==
    CASE mode = "CopyNone"   -> NFQNL_COPY_NONE
      [] mode = "CopyMeta"   -> NFQNL_COPY_META
      [] mode = "CopyPacket" -> NFQNL_COPY_PACKET

\* Queue::set_mode
set_mode(mode, range) ==
    /\ pc = "idle"
    /\ IF ~qqh_assert
       THEN Panic("set_mode")
       ELSE /\ Done("set_mode", "unit",
                    <<NativeCall("nfq_set_mode", qqh, CMode(mode), range, 0)>>, TRUE)
            /\ UNCHANGED <<qh, qqh, cb, data, pc, native, loopvars>>

\* Queue::set_queue_maxlen
set_queue_maxlen(queuelen) ==
    /\ pc = "idle"
    /\ IF ~qqh_assert
       THEN Panic("set_queue_maxlen")
       ELSE /\ \E r \in {0, -1} :
                Done("set_queue_maxlen", IF r = 0 THEN "0" ELSE "-1",
                     <<NativeCall("nfq_set_queue_maxlen", qqh, queuelen, 0, r)>>, TRUE)
            /\ UNCHANGED <<qh, qqh, cb, data, pc, native, loopvars>>

\* The three assert!s of Queue::run_loop.
run_loop_assert_no_qqh == qh # NULL /\ cb # None

run_loop_assert == qh # NULL /\ qqh # NULL /\ cb # None

\* Queue::run_loop up to the loop: the three asserts, then self.fd().
run_loop ==
    /\ pc = "idle"
    /\ IF ~run_loop_assert
       THEN Panic("run_loop")
       ELSE /\ pc' = "recv"
            /\ Done("run_loop", "none", <<NativeCall("nfq_fd", qh, 0, 0, 3)>>, TRUE)
            /\ UNCHANGED <<qh, qqh, cb, data, native, loopvars>>

\* Where run_loop goes after recv() returned r: a negative result panics.
AfterRecv_ignored(r) == "parse"

AfterRecv(r) == IF r < 0 THEN "panicked" ELSE "parse"

\* Where run_loop goes after nfq_handle_packet() returned r: a negative
\* result is printed and the loop goes on.
AfterParse_fatal(r) == IF r < 0 THEN "panicked" ELSE "recv"

AfterParse(r) == "recv"

\* run_loop and everything nfq_handle_packet calls run on the one thread
\* that called run_loop: a step of the loop or a new dispatch starts only
\* when no user callback is running.
Sequential_none == TRUE

Sequential == active = 0

\* run_loop: libc::recv and the test of its result.
recv ==
    /\ pc = "recv"
    /\ Sequential
    /\ reads < MaxIters
    /\ \E r \in {-1, 0, 1} :
        /\ rc' = r
        /\ okReads' = IF r < 0 THEN okReads ELSE okReads + 1
        /\ pc' = AfterRecv(r)
    /\ reads' = reads + 1
    /\ UNCHANGED <<qh, qqh, cb, data, last, prev, script, e2e, addr, native,
                   rv, pending, delivered, active, parses, parseFails, calls,
                   cbres, cbret, verdicts>>

\* The native queue handles the parser can deliver packets to: those
\* registered on the connection handle it was given.
QueuesOn(h) == {q \in liveQueues : q.conn = h}

\* run_loop: the call of nfq_handle_packet(self.qh, buf, rc); the native
\* parser finds n packet notifications in the buffer.
handle_packet_call ==
    /\ pc = "parse"
    /\ \E n \in 0..MaxPkts :
        /\ n > 0 => (rc > 0 /\ QueuesOn(qh) # {})
        /\ pending' = n
        /\ delivered' = delivered + n
    /\ parses' = parses + 1
    /\ pc' = "dispatch"
    /\ UNCHANGED <<qh, qqh, cb, data, last, prev, script, e2e, addr, native,
                   rc, rv, active, reads, okReads, parseFails, calls, cbres,
                   cbret, verdicts>>

\* Message::new(qqh, nfad): a view of the packet record, with its native
\* queue handle and the kernel's packet id.
Message_new(q, id) == [qqh |-> q, id |-> id]

\* Message::set_verdict: submits the verdict for the message's packet id on
\* its queue handle; r is the native result code.
set_verdict(msg, v, r) ==
    [verdict |-> [q |-> msg.qqh, id |-> msg.id, v |-> v], ret |-> r]

\* The crate-doc callback: counts the packet and accepts it; its result is
\* the result of Message::set_verdict.
queue_callback(msg, state, r) ==
    LET sv == set_verdict(msg, "Accept", r) IN
    [state   |-> [count |-> state.count + 1],
     verdict |-> sv.verdict,
     ret     |-> sv.ret]

\* What real_callback returns to the native library: the callback's result.
TrampolineResult_zero(r) == 0

TrampolineResult(r) == r

\* The State the callback's &mut refers to: q.data of the Queue recovered
\* from the context pointer.  A context pointer to a place the Queue has
\* left refers to dead memory, and the Queue's own data is not touched.
CallbackState_copy(ctx, out) == data

CallbackState(ctx, out) == IF ctx = addr THEN out.state ELSE data

\* What the lookup of q.cb in real_callback can come to.  Through a context
\* pointer to a place the Queue has left, the read is of dead memory: the
\* call crashes or finds no callback, or it finds the old one.
Lookup(ctx) ==
    IF ctx = addr
    THEN IF cb = None THEN {"panic"} ELSE {"call"}
    ELSE {"panic", "call"}

\* real_callback up to the call of the user callback: recover the Queue
\* from the context pointer and look up q.cb.
real_callback ==
    /\ pc = "dispatch"
    /\ Sequential
    /\ pending > 0
    /\ \E q \in QueuesOn(qh) : \E outcome \in Lookup(q.ctx) :
        /\ pc' = IF outcome = "panic" THEN "panicked" ELSE pc
        /\ active' = IF outcome = "panic" THEN active ELSE active + 1
        /\ calls' = IF outcome = "panic" THEN calls ELSE calls + 1
        /\ pending' = IF outcome = "panic" THEN pending ELSE pending - 1
    /\ UNCHANGED <<qh, qqh, cb, data, last, prev, script, e2e, addr, native,
                   rc, rv, delivered, reads, okReads, parses, parseFails,
                   cbres, cbret, verdicts>>

\* real_callback from the user callback on: the callback runs on the
\* Message and &mut q.data and real_callback returns its result.
real_callback_return ==
    /\ pc = "dispatch"
    /\ active > 0
    /\ \E q \in QueuesOn(qh), r \in {0, -1} :
        LET msg == Message_new(q.id, calls - active + 1)
            out == queue_callback(msg, data, r) IN
        /\ data' = CallbackState(q.ctx, out)
        /\ verdicts' = Append(verdicts, out.verdict)
        /\ cbres' = out.ret
        /\ cbret' = TrampolineResult(out.ret)
    /\ active' = active - 1
    /\ UNCHANGED <<qh, qqh, cb, pc, last, prev, script, e2e, addr, native,
                   rc, rv, pending, delivered, reads, okReads, parses,
                   parseFails, calls>>

\* run_loop: nfq_handle_packet returns and its result is tested.
handle_packet_return ==
    /\ pc = "dispatch"
    /\ Sequential
    /\ pending = 0
    /\ \E r \in {0, -1} :
        /\ rv' = r
        /\ parseFails' = IF r < 0 THEN parseFails + 1 ELSE parseFails
        /\ pc' = AfterParse(r)
    /\ UNCHANGED <<qh, qqh, cb, data, last, prev, script, e2e, addr, native,
                   rc, pending, delivered, active, reads, okReads, parses,
                   calls, cbres, cbret, verdicts>>

\* The owner of the Queue moves the value (returns it from a function,
\* stores it in a struct or a Box): Queue is a plain struct, nothing pins
\* it, and a move is possible whenever no method borrows it.
move_queue ==
    /\ pc = "idle"
    /\ addr < MaxMoves
    /\ addr' = addr + 1
    /\ UNCHANGED <<qh, qqh, cb, data, pc, last, prev, script, e2e, native,
                   loopvars>>

\* ------------------------------------------------------------ properties
InLoop(p) == p \in {"recv", "parse", "dispatch"}

\* C1: in every reachable state the per-queue handle qqh is non-null only
\* if the connection handle qh is non-null.
C1_QqhOnlyWhileQh == qqh # NULL => qh # NULL

\* C2: after any close() that completes, both qh and qqh are null.
C2_CloseClearsBoth ==
    (last.op = "close" /\ ~last.abort) => (qh = NULL /\ qqh = NULL)

\* C3: along open, bind, create_queue, destroy_queue, close with the native
\* open and create succeeding, qh is non-null exactly from after open until
\* close and qqh exactly from after create_queue until destroy_queue.
C3_LifecycleAlongScript ==
    script >= 0 =>
        /\ (qh # NULL) <=> (script \in 1..4)
        /\ (qqh # NULL) <=> (script = 3)

C3_Witness == script = Len(Script) /\ last.op = "close" /\ nq = 1

\* C4: close() with a null connection handle aborts, issues no native call
\* and leaves the handles (and the native connections) unchanged.
C4_CloseOnNullRejected ==
    [][(last'.op = "close" /\ qh = NULL) =>
         /\ last'.abort
         /\ pc' = "panicked"
         /\ last'.native = <<>>
         /\ UNCHANGED <<qh, qqh, liveConns, liveQueues>>]_vars

C4_Witness ==
    last.op = "close" /\ last.abort /\ nconn > 0 /\ liveConns = {}

\* C5: when nfq_open returns a null handle, open() fails with an explicit
\* error result (OpenError) instead of completing like a successful open.
C5_OpenFailureIsReported ==
    (last.op = "open" /\ last.native[1].res = NULL) =>
        (last.abort \/ last.ret = "OpenError")

\* C6 (as stated): create_queue with qh null returns a non-success
\* indicator to the caller and leaves qqh null.
C6_CreateWithoutConnReturnsFalse ==
    [][(last'.op = "create_queue" /\ qh = NULL) =>
         (~last'.abort /\ last'.ret = "false" /\ qqh' = NULL)]_vars

\* C6 (amended): create_queue with qh null is a precondition violation: it
\* aborts without returning anything, issues no native create and leaves
\* qqh and cb as they were.
C6_CreateWithoutConnAborts ==
    [][(last'.op = "create_queue" /\ qh = NULL) =>
         /\ last'.abort
         /\ pc' = "panicked"
         /\ last'.ret = "none"
         /\ last'.native = <<>>
         /\ UNCHANGED <<qh, qqh, cb, liveQueues>>]_vars

C6_Witness == last.op = "create_queue" /\ last.abort /\ qh = NULL

\* C7: at most one native queue handle created through the Queue is live
\* and it is the one in qqh; create_queue is accepted only when qqh is
\* null, a create_queue while a handle is held aborts before any native
\* create, and create_queue returns true exactly when the stored qqh is
\* non-null.
C7_AtMostOneQueueHandle ==
    /\ [](/\ Cardinality(liveQueues) <= 1
          /\ \A q \in liveQueues : q.id = qqh)
    /\ [][last'.op = "create_queue" =>
            /\ qqh # NULL =>
                 /\ last'.abort
                 /\ last'.native = <<>>
                 /\ UNCHANGED <<qqh, liveQueues, nq>>
            /\ ~last'.abort =>
                 /\ qqh = NULL
                 /\ Len(last'.native) = 1
                 /\ last'.native[1].res = qqh'
                 /\ (last'.ret = "true") <=> (qqh' # NULL)
                 /\ (last'.ret = "false") <=> (qqh' = NULL)]_vars

C7_Witness ==
    /\ last.op = "create_queue" /\ last.abort
    /\ qh # NULL /\ qqh # NULL /\ Cardinality(liveQueues) = 1

\* C8: set_mode, set_queue_maxlen and destroy_queue called while qqh is
\* null abort without issuing any native call.
C8_NoQueueHandleRejected ==
    [][(last'.op \in {"set_mode", "set_queue_maxlen", "destroy_queue"}
        /\ qqh = NULL) =>
         /\ last'.abort
         /\ pc' = "panicked"
         /\ last'.native = <<>>
         /\ UNCHANGED <<qh, qqh, liveQueues>>]_vars

C8_Witness ==
    last.op = "set_mode" /\ last.abort /\ qh # NULL /\ nq = 0

\* C9: a negative nfq_handle_packet result does not end run_loop: control
\* returns to recv, the next read can be made, and every buffer read
\* successfully, also after a parse failure, is handed to the parser.
C9_ParseFailureNonFatal ==
    /\ [][(parseFails' # parseFails) => (rv' < 0 /\ pc' = "recv")]_vars
    /\ [][(pc = "parse") => (parses' = parses + 1 /\ pc' = "dispatch")]_vars
    /\ []((pc = "recv" /\ parseFails > 0) => parses = okReads)
    /\ []((pc = "recv" /\ reads < MaxIters) => ENABLED recv)

C9_Witness ==
    /\ parseFails = 1 /\ rv < 0 /\ parses = 2
    /\ pc = "dispatch" /\ calls > MaxPkts

\* C10: a negative recv result ends run_loop and nothing is read, parsed
\* or dispatched after it; the loop ends in no other way (not on a
\* zero-length read, not on a parse failure).
C10_ReadFailureEndsLoop ==
    /\ [][(pc = "recv" /\ reads' # reads /\ rc' < 0) => pc' = "panicked"]_vars
    /\ [][pc = "panicked" => UNCHANGED <<reads, parses, calls, verdicts>>]_vars
    /\ [][(InLoop(pc) /\ ~InLoop(pc')) => (pc = "recv" /\ rc' < 0)]_vars
    /\ [][(pc = "recv" /\ reads' # reads /\ rc' = 0) => pc' = "parse"]_vars

C10_Witness ==
    pc = "panicked" /\ last.op = "run_loop" /\ rc < 0 /\ parseFails > 0

\* C11: the State's counter equals the number of completed callback
\* invocations, each of which submitted one Accept for its packet's id; at
\* the top of the loop it equals the number of packets delivered; and after
\* open, bind(2), create_queue(0, cb), set_mode(CopyPacket, 0xFFFF), one
\* run_loop iteration over a buffer with a single packet leaves the counter
\* at 1 with exactly one Accept, for that packet.
C11_EndToEndCounter ==
    /\ data.count = calls - active
    /\ Len(verdicts) = calls - active
    /\ \A i \in 1..Len(verdicts) :
         verdicts[i].id = i /\ verdicts[i].v = "Accept"
    /\ pc = "recv" => data.count = delivered
    /\ (e2e = Len(EndToEnd) /\ pc = "recv" /\ reads = 1 /\ delivered = 1) =>
         /\ data.count = 1
         /\ verdicts = <<[q |-> qqh, id |-> 1, v |-> "Accept"]>>

C11_Witness ==
    /\ e2e = Len(EndToEnd) /\ pc = "recv" /\ reads = 1 /\ delivered = 1
    /\ data.count = 1 /\ Len(verdicts) = 1

\* C12: after a close() that completed, an open() followed by
\* create_queue() is accepted without a precondition violation.
C12_ReusableAfterClose ==
    [][(prev.op = "close" /\ last.op = "open" /\ qh # NULL
        /\ last'.op = "create_queue") => ~last'.abort]_vars

C14_SequentialDispatch ==
    /\ [](active <= 1)
    /\ [](pc = "recv" => (active = 0 /\ pending = 0 /\ calls = delivered))
    /\ [][reads' # reads => (active = 0 /\ pending = 0)]_vars
    /\ [][calls' # calls => active = 0]_vars

C14_Witness == active = 1 /\ calls = 2 /\ Len(verdicts) = 1 /\ reads = 1

\* C15: the context pointer registered with every live native queue handle
\* designates the place where the Queue value currently is.
C15_ContextDesignatesQueue == \A q \in liveQueues : q.ctx = addr

C17_RunLoopPreconditions ==
    /\ [](InLoop(pc) => (qh # NULL /\ qqh # NULL /\ cb # None))
    /\ [][(pc = "idle" /\ last'.op = "run_loop") =>
            IF qh = NULL \/ qqh = NULL \/ cb = None
            THEN /\ last'.abort
                 /\ pc' = "panicked"
                 /\ last'.native = <<>>
                 /\ UNCHANGED <<reads, parses, calls>>
            ELSE /\ ~last'.abort
                 /\ pc' = "recv"
                 /\ reads' = reads]_vars

C17_Witness ==
    last.op = "run_loop" /\ last.abort /\ qh # NULL /\ qqh = NULL

\* C18: an open() after an open() whose native call returned null is
\* accepted; after a create_queue() that returned false the connection is
\* still open with no queue handle, and a later create_queue() on it is
\* accepted.
C18_SetupRetryAccepted ==
    /\ [][(last.op = "open" /\ qh = NULL /\ last'.op = "open") =>
            ~last'.abort]_vars
    /\ []((last.op = "create_queue" /\ last.ret = "false") =>
            (qh # NULL /\ qqh = NULL))
    /\ [][(last.op = "create_queue" /\ last.ret = "false"
           /\ last'.op = "create_queue") => ~last'.abort]_vars
    /\ [][(pc = "idle" /\ qh # NULL /\ qqh = NULL
           /\ last'.op = "create_queue") => ~last'.abort]_vars

C18_Witness ==
    /\ prev = [op |-> "create_queue", ret |-> "false"]
    /\ last.op = "create_queue" /\ last.ret = "true" /\ qqh # NULL

\* C19: at most one native connection opened through the Queue is not yet
\* closed, and none is when qh is null.
C19_ConnectionsReleased ==
    /\ Cardinality(liveConns) <= 1
    /\ qh = NULL => liveConns = {}

\* The queue handle in qqh belongs to a connection that has been closed.
StaleQqh == \E q \in liveQueues : q.id = qqh /\ q.conn \notin liveConns

\* C20: destroy_queue, set_mode and set_queue_maxlen on a queue handle
\* whose connection has been closed abort without any native call.
C20_StaleQueueHandleRejected ==
    [][(StaleQqh /\ last'.op \in {"destroy_queue", "set_mode",
                                  "set_queue_maxlen"}) =>
         (last'.abort /\ last'.native = <<>>)]_vars

Lifecycle ==
    \/ open
    \/ close
    \/ \E pf \in Families : bind(pf)
    \/ \E pf \in Families : unbind(pf)
    \/ fd
    \/ \E num \in QueueNums, c \in Callbacks : create_queue(num, c)
    \/ destroy_queue
    \/ \E mode \in CopyModes, range \in Ranges : set_mode(mode, range)
    \/ \E queuelen \in QueueLens : set_queue_maxlen(queuelen)

Loop ==
    \/ run_loop
    \/ recv
    \/ handle_packet_call
    \/ real_callback
    \/ real_callback_return
    \/ handle_packet_return

Next == Lifecycle \/ Loop

Spec == Init /\ [][Next]_vars

\* The same, with an owner that also moves the Queue value.
NextMoved == Next \/ move_queue

SpecMoved == Init /\ [][NextMoved]_vars
====
